---- MODULE Spec2Model ----
(***************************************************************************)
(* Document processing state machine of the Docinsight server:            *)
(* server/routes.ts (upload, reprocess, delete, chat, startup recovery,   *)
(* processDocument, enhanceAnalysisWithAI) over the MongoStorage          *)
(* collections documents, pages, extractions and chatMessages.            *)
(*                                                                         *)
(* Granularity: one action per storage operation of a background task     *)
(* (every await of processDocument / enhanceAnalysisWithAI / the four     *)
(* deletes of deleteDocument is an interleaving point); the synchronous   *)
(* code between two awaits belongs to the following storage operation.    *)
(* Fault model: every step inside the try block of processDocument may    *)
(* throw; the storage write of its catch handler succeeds.                *)
(***************************************************************************)
EXTENDS Integers, Sequences, FiniteSets, TLC

\* ---------------------------------------------------------------- bounds
MaxDocs == 2
MaxRuns == 2
MaxLegacy == 1
MaxEvents == 2
MaxChat == 2
MaxRetries == 3

DocIds == 1..MaxDocs
RunIds == 1..MaxRuns

\* ------------------------------------------------------------- constants
MockUser == "mock-user-id-123"
OtherUser == "other-user"
NoDoc == [status |-> "absent"]
NoProgress == -2
ErrorProgress == -1
Collections == {"documents", "pages", "extractions", "chatMessages"}
FileKinds == {"corrupt", "pdf0", "pdfx"}

\* numpages reported by pdf-parse for a readable file
NumPages(kind) == IF kind = "pdf2" THEN 2 ELSE 0

\* --------------------------------------------------------------- strings
\* a string is a sequence of one-character strings
Rep(c, n) == [i \in 1..n |-> c]

Lower(c) == IF c = "K" THEN "k" ELSE c

toLowerCase(s) == [i \in DOMAIN s |-> Lower(s[i])]

StartsAt(s, t, i) ==
    /\ i + Len(t) - 1 <= Len(s)
    /\ \A j \in 1..Len(t) : s[i + j - 1] = t[j]

includes(s, t) == \E i \in 1..(Len(s) + 1) : StartsAt(s, t, i)

Whitespace == {" ", "\n"}

\* the least index from i on whose character is (is not) in cs, or Len(s) + 1
FirstIn(s, i, cs) ==
    IF \E j \in i..Len(s) : s[j] \in cs
    THEN CHOOSE j \in i..Len(s) : s[j] \in cs /\ \A k \in i..(j - 1) : s[k] \notin cs
    ELSE Len(s) + 1

FirstNotIn(s, i, cs) ==
    IF \E j \in i..Len(s) : s[j] \notin cs
    THEN CHOOSE j \in i..Len(s) : s[j] \notin cs /\ \A k \in i..(j - 1) : s[k] \in cs
    ELSE Len(s) + 1

trimStart(s) == SubSeq(s, FirstNotIn(s, 1, Whitespace), Len(s))

trimEnd(s) ==
    IF \E j \in 1..Len(s) : s[j] \notin Whitespace
    THEN SubSeq(s, 1, CHOOSE j \in 1..Len(s) :
                         s[j] \notin Whitespace /\ \A k \in (j + 1)..Len(s) : s[k] \in Whitespace)
    ELSE <<>>

trim(s) == trimEnd(trimStart(s))

\* s.split(/[seps]+/): "" gives [""], a trailing separator gives a last ""
RECURSIVE SplitFrom(_, _, _)
SplitFrom(s, i, seps) ==
    LET j == FirstIn(s, i, seps)
    IN IF j > Len(s) THEN <<SubSeq(s, i, Len(s))>>
       ELSE <<SubSeq(s, i, j - 1)>> \o SplitFrom(s, FirstNotIn(s, j, seps), seps)

split(s, seps) == SplitFrom(s, 1, seps)

SentenceEnds == {".", "!", "?"}

slice(s, n) == SubSeq(s, 1, IF Len(s) < n THEN Len(s) ELSE n)

\* the text pdf-parse extracts from a stored file (pdfData.text || "")
LongSentence(c) == <<" ", c>> \o Rep("x", 20)

Text2 ==
    LongSentence("k") \o <<".">> \o LongSentence("K") \o <<"!">>
      \o LongSentence("k") \o <<"?">> \o LongSentence("k") \o <<".">>
      \o <<" ", "s", "k">> \o Rep("x", 18) \o <<".">> \o <<" ", "s", ".">>

TextX == <<"#">>

TextOf(kind) == CASE kind = "pdf2" -> Text2
                  [] kind = "pdfx" -> TextX
                  [] OTHER -> <<>>

\* ----------------------------------------------------------------- nlp.ts
Range(f) == {f[i] : i \in DOMAIN f}

Thrown == [threw |-> TRUE, value |-> <<>>]

Returned(v) == [threw |-> FALSE, value |-> v]

\* The compromise library: nlp(text) fails on a text it cannot parse; a
\* selection (people(), nouns(), ...) and a regular-expression match are
\* the terms of the text that carry the tag.
CompromiseFails(text) == includes(text, <<"#">>)

Terms(text) ==
    SelectSeq(split(text, Whitespace \cup SentenceEnds), LAMBDA w : w # <<>>)

Tag(w) == CASE includes(w, <<"@">>) -> "Email"
            [] Head(w) = "K" -> "Person"
            [] Head(w) \in {"k", "s"} -> "Noun"
            [] OTHER -> "None"

Select(text, tag) == SelectSeq(Terms(text), LAMBDA w : Tag(w) = tag)

MinEntityLen == 2
MinKeywordLen == 3
MaxKeywords == 15

\* selection.forEach: push the trimmed item when it is longer than minLen
\* and its lower case was not seen before
RECURSIVE PushEntities(_, _, _, _)
PushEntities(entities, items, type, minLen) ==
    IF items = <<>> THEN entities
    ELSE LET text == trim(Head(items))
             seen == {toLowerCase(e.text) : e \in Range(entities)}
             pushed == IF Len(text) > minLen /\ toLowerCase(text) \notin seen
                       THEN Append(entities, [type |-> type, text |-> text])
                       ELSE entities
         IN PushEntities(pushed, Tail(items), type, minLen)

\* every stage runs in its own try/catch; only nlp(text) is outside them
extractEntities(text) ==
    IF CompromiseFails(text) THEN Thrown
    ELSE LET people == PushEntities(<<>>, Select(text, "Person"), "person", MinEntityLen)
             orgs == PushEntities(people, Select(text, "Organization"), "organization", MinEntityLen)
             places == PushEntities(orgs, Select(text, "Place"), "location", MinEntityLen)
             dates == PushEntities(places, Select(text, "Date"), "date", 0)
             money == PushEntities(dates, Select(text, "Money"), "money", 0)
             emails == PushEntities(money, Select(text, "Email"), "email", 0)
             phones == PushEntities(emails, Select(text, "Phone"), "phone", 0)
         IN Returned(phones)

RECURSIVE PushKeywords(_, _)
PushKeywords(keywords, items) ==
    IF items = <<>> THEN keywords
    ELSE LET word == trim(toLowerCase(Head(items)))
             pushed == IF Len(word) > MinKeywordLen /\ word \notin Range(keywords)
                       THEN Append(keywords, word) ELSE keywords
         IN PushKeywords(pushed, Tail(items))

\* (text.match(new RegExp(word, "gi")) || []).length
RECURSIVE CountFrom(_, _, _)
CountFrom(s, t, i) ==
    IF \E j \in i..Len(s) : StartsAt(s, t, j)
    THEN LET j == CHOOSE j \in i..Len(s) :
                     StartsAt(s, t, j) /\ \A k \in i..(j - 1) : ~StartsAt(s, t, k)
         IN 1 + CountFrom(s, t, j + Len(t))
    ELSE 0

WordCount(text, word) == CountFrom(toLowerCase(text), word, 1)

\* keywords.sort((a, b) => count(b) - count(a)): stable, most frequent first
RECURSIVE SortByCount(_, _)
SortByCount(keywords, text) ==
    IF keywords = <<>> THEN <<>>
    ELSE LET rest == SortByCount(Tail(keywords), text)
             w == Head(keywords)
             ahead == SelectSeq(rest, LAMBDA v : WordCount(text, v) > WordCount(text, w))
             behind == SelectSeq(rest, LAMBDA v : WordCount(text, v) <= WordCount(text, w))
         IN ahead \o <<w>> \o behind

extractKeywordsOrWords(text) ==
    IF CompromiseFails(text) THEN Thrown
    ELSE LET keywords == PushKeywords(<<>>, Select(text, "Noun"))
         IN Returned(IF keywords = <<>> THEN split(text, Whitespace)
                     ELSE slice(SortByCount(keywords, text), MaxKeywords))

\* nlp(text), doc.nouns() and doc.topics() are called outside any try/catch
extractKeywordsFromText(text) ==
    IF CompromiseFails(text) THEN Thrown
    ELSE LET nouns == PushKeywords(<<>>, Select(text, "Noun"))
             topics == PushKeywords(nouns, Select(text, "Person")
                                             \o Select(text, "Place")
                                             \o Select(text, "Organization"))
         IN Returned(slice(SortByCount(topics, text), MaxKeywords))

NoAnalysis == [entities |-> <<>>, keywords |-> <<>>]

\* what the two sub-tasks give on the text of each kind of file
TextKinds == {"none", "pdf0", "pdf2", "pdfx"}

NlpResults ==
    [kind \in TextKinds |-> [entities |-> extractEntities(TextOf(kind)),
                             nlpKeywords |-> extractKeywordsFromText(TextOf(kind))]]

\* ------------------------------------------- routes.ts: POST /api/chat
\* the questions a client sends
Questions == {<<"k">>, <<"s">>, <<"q">>}

MinSentenceLen == 20
MaxCitations == 3

RECURSIVE join(_, _)
join(parts, sep) ==
    IF Len(parts) = 0 THEN <<>>
    ELSE IF Len(parts) = 1 THEN parts[1]
    ELSE parts[1] \o sep \o join(Tail(parts), sep)

\* a stored message body: the template used and the sentences put into it
Content(kind, parts) == [kind |-> kind, parts |-> parts]

\* what the assistant message is made of; citations <<>> stands for undefined
Answer(kind, parts, citations) ==
    [content |-> Content(kind, parts), citations |-> citations]

\* doc.extractedText.split(/[.!?]+/).filter(...)
RelevantSentences(text, content) ==
    LET searchTerm == toLowerCase(content)
    IN SelectSeq(split(text, SentenceEnds),
                 LAMBDA s : /\ includes(toLowerCase(s), searchTerm)
                            /\ Len(trim(s)) > MinSentenceLen)

keywordFallbackAll(text, content) ==
    IF Len(text) > 0
    THEN IF includes(toLowerCase(text), toLowerCase(content))
         THEN LET sentences == RelevantSentences(text, content)
              IN IF Len(sentences) > 0
                 THEN Answer("found", sentences,
                             [i \in DOMAIN sentences |-> trim(sentences[i])])
                 ELSE Answer("unclear", <<>>, <<>>)
         ELSE Answer("nomatch", <<>>, <<>>)
    ELSE Answer("apology", <<>>, <<>>)

\* the catch block around the LLM call
keywordFallback(text, content) ==
    IF Len(text) > 0
    THEN IF includes(toLowerCase(text), toLowerCase(content))
         THEN LET sentences == RelevantSentences(text, content)
              IN IF Len(sentences) > 0
                 THEN LET relevantSentences == slice(sentences, MaxCitations)
                      IN Answer("found", relevantSentences,
                                [i \in DOMAIN relevantSentences |->
                                    trim(relevantSentences[i])])
                 ELSE Answer("unclear", <<>>, <<>>)
         ELSE Answer("nomatch", <<>>, <<>>)
    ELSE Answer("apology", <<>>, <<>>)

\* pages.map(p => p.extractedText || '').filter(...).join('\n\n') for a
\* document whose pages hold copies of the text of its one file
JoinedText(kind, copies) == join([i \in 1..copies |-> TextOf(kind)], <<"\n", "\n">>)

MaxCopies == MaxRuns + MaxLegacy

\* the fallback answer for every text a document can have and every question
Fallbacks ==
    [kind \in TextKinds |-> [copies \in 0..MaxCopies |-> [content \in Questions |->
        keywordFallback(JoinedText(kind, copies), content)]]]

\* ------------------------------------------------ gemini.ts: callWithRetry
DefaultRetries == 3
DefaultDelay == 1000
BackoffFactor == 2
MsPerSecond == 1000
RetryBuffer == 1000
MaxWait == 60000
TooManyRequests == 429

DigitChars == <<"0", "1", "2", "3", "4", "5", "6", "7", "8", "9">>

DigitValue(c) == (CHOOSE i \in DOMAIN DigitChars : DigitChars[i] = c) - 1

\* s.replace(c, ''): the first occurrence of c is removed
replaceFirst(s, c) ==
    LET i == FirstIn(s, 1, {c})
    IN IF i > Len(s) THEN s ELSE SubSeq(s, 1, i - 1) \o SubSeq(s, i + 1, Len(s))

NaN == -1

RECURSIVE DecimalValue(_)
DecimalValue(s) ==
    IF Len(s) = 0 THEN 0
    ELSE 10 * DecimalValue(SubSeq(s, 1, Len(s) - 1)) + DigitValue(s[Len(s)])

\* parseFloat on a string of whole seconds: the value of the leading digits,
\* NaN when there is none
parseFloat(s) ==
    LET n == FirstNotIn(s, 1, Range(DigitChars)) - 1
    IN IF n = 0 THEN NaN ELSE DecimalValue(SubSeq(s, 1, n))

\* what the wrapped call rejects with: error.status, error.message and the
\* retryDelay of the RetryInfo entry of error.errorDetails (<<>>: none)
Error(status, message, retryDelay) ==
    [status |-> status, message |-> message, retryDelay |-> retryDelay]

NoError == Error(0, <<>>, <<>>)

Errors ==
    {Error(TooManyRequests, <<>>, <<>>),
     Error(0, <<"e", "4", "2", "9">>, <<>>),
     Error(TooManyRequests, <<>>, <<"5", "s">>),
     Error(TooManyRequests, <<>>, <<"6", "0", "s">>),
     Error(TooManyRequests, <<>>, <<"s", "o", "o", "n">>),
     Error(500, <<"e">>, <<>>),
     Error(500, <<"e">>, <<"5", "s">>)}

Is429Any(error) == TRUE

\* error.status === 429 || error.message?.includes('429')
Is429(error) ==
    \/ error.status = TooManyRequests
    \/ includes(error.message, <<"4", "2", "9">>)

\* let waitTime = delay * 2, or the delay the API asks for plus one second
WaitTime(error, delay) ==
    LET seconds == parseFloat(replaceFirst(error.retryDelay, "s"))
    IN IF error.retryDelay # <<>> /\ seconds # NaN
       THEN seconds * MsPerSecond + RetryBuffer
       ELSE delay * BackoffFactor

\* one call of callWithRetry(fn, retries, delay): given is the retries of
\* the outermost call, calls the number of times fn was invoked
RetryCall(retries, delay) ==
    [pc |-> "enter", retries |-> retries, delay |-> delay, given |-> retries,
     calls |-> 0, error |-> NoError]

NoCall == [RetryCall(0, 0) EXCEPT !.pc = "none"]

VARIABLES server, events, geminiConfigured, docs, files, old, pages,
          extractions, chatMessages, runs, enh, del, recovery, http, retry

vars == <<server, events, geminiConfigured, docs, files, old, pages,
          extractions, chatMessages, runs, enh, del, recovery, http, retry>>

\* ---------------------------------------------------------------- helpers
Exists(d) == docs[d] # NoDoc

\* req.user.claims.sub: the session user is always the mock user
RequestUser == MockUser

IsOwnerAny(doc, userId) == TRUE

\* doc.userId !== req.user.claims.sub answers 403
IsOwner(doc, userId) == doc.userId = userId

\* the most recent request and the status of its response (0: not answered)
Http(route, d, file, status) == [route |-> route, doc |-> d, file |-> file, status |-> status]

NoHttp == Http("none", 0, "none", 0)

\* the look-up and the owner check that open every document route
Denied(d) == IF ~Exists(d) THEN 404
             ELSE IF ~IsOwner(docs[d], RequestUser) THEN 403
             ELSE 0

IdleRun == [doc |-> 0, pc |-> "idle", src |-> "none", last |-> NoProgress, np |-> 0,
            text |-> "none", analysis |-> NoAnalysis]

\* a run that returned, threw or died with the process keeps no state
EndedRun == [IdleRun EXCEPT !.pc = "ended"]

RunPcs == {"start", "parse", "page", "p40", "nlp", "p60", "extract", "p80",
           "sched", "complete", "catch", "rethrown"}

\* a run whose try block threw keeps only what its handlers read
FailedRun(run) == [IdleRun EXCEPT !.doc = run.doc, !.src = run.src, !.pc = "catch"]

InFlight(r) == runs[r].pc \in RunPcs

RunsInFlight(d) == {r \in RunIds : InFlight(r) /\ runs[r].doc = d}

NoEnh == [pc |-> "none", doc |-> 0, ext |-> 0]

EnhInFlight(r) == enh[r].pc \in {"llm", "update"}

FreeRun == IF \E r \in RunIds : runs[r].pc = "idle"
           THEN CHOOSE r \in RunIds : runs[r].pc = "idle" /\ \A q \in RunIds : runs[q].pc = "idle" => r <= q
           ELSE 0

\* ObjectIds are never reused: a document id is free while no file was
\* ever stored for it.
FreeDoc == IF \E d \in DocIds : files[d] = "unused"
           THEN CHOOSE d \in DocIds : files[d] = "unused"
                     /\ \A q \in DocIds : files[q] = "unused" => d <= q
           ELSE 0

FileExistsAlways(d) == TRUE

\* fs.existsSync(filePath)
FileExists(d) == files[d] \notin {"unused", "missing"}

\* ------------------------------------------------------ MongoStorage ops
\* findOneAndUpdate with upsert: a missing document is created
updateDocumentUpsert(ds, id, updates) ==
    LET base == IF ds[id] = NoDoc
                THEN [userId |-> MockUser, status |-> "processing",
                      processingProgress |-> NoProgress, pageCount |-> 0,
                      uploadDate |-> "unset", extractedText |-> "unset"]
                ELSE ds[id]
    IN [ds EXCEPT ![id] = [f \in DOMAIN base |->
                             IF f \in DOMAIN updates THEN updates[f] ELSE base[f]]]

\* findOneAndUpdate({_id}, {$set: updates}) without upsert: a missing
\* document is left missing.
updateDocument(ds, id, updates) ==
    IF ds[id] = NoDoc THEN ds
    ELSE [ds EXCEPT ![id] = [f \in DOMAIN ds[id] |->
                               IF f \in DOMAIN updates THEN updates[f] ELSE ds[id][f]]]

createDocument(ds, id, doc) == [ds EXCEPT ![id] = doc]

createPage(ps, page) == ps \cup {page}

createExtraction(es, extraction) == es \cup {extraction}

getExtractions(es, documentId) == {e \in es : e.documentId = documentId}

getExtractionOfAnyDocument(es, documentId, extractionType) ==
    {e \in es : e.extractionType = extractionType}

\* findOne({documentId, extractionType}): any one matching record
getExtraction(es, documentId, extractionType) ==
    {e \in es : e.documentId = documentId /\ e.extractionType = extractionType}

updateExtractionUpsert(es, id, data) ==
    IF \E e \in es : e.id = id
    THEN {IF e.id = id THEN [e EXCEPT !.data = data] ELSE e : e \in es}
    ELSE es \cup {[id |-> id, documentId |-> 0, extractionType |-> "analysis",
                   data |-> data]}

\* findOneAndUpdate({_id}, {$set: {data}}) without upsert
updateExtraction(es, id, data) ==
    {IF e.id = id THEN [e EXCEPT !.data = data] ELSE e : e \in es}

deleteExtraction(es, id) == {e \in es : e.id # id}

\* -------------------------------------------------------------------- Init
\* The database and the uploads directory outlive the process.  At start
\* the documents collection is empty or holds records left in "processing"
\* by an interrupted run of a deployment whose records carry uploadDate
\* (DocumentSchema gives uploadDate a default); the file of such a record
\* is on disk, or was unlinked by a delete request that did not finish.
\* events counts what the environment does (stored records, client
\* requests, crashes): MaxEvents of them, after which the process may stop
\* once more.
LegacyDoc(p) == [userId |-> MockUser, status |-> "processing",
                 processingProgress |-> p, pageCount |-> 0, uploadDate |-> "set",
                 extractedText |-> "unset"]

Init ==
    /\ server = "down"
    /\ geminiConfigured \in BOOLEAN
    /\ \E n \in 0..MaxLegacy :
         /\ events = n
         /\ docs \in [DocIds -> {NoDoc} \cup {[LegacyDoc(40) EXCEPT !.userId = u] :
                                                u \in {MockUser, OtherUser}}]
         /\ \A d \in DocIds : Exists(d) <=> d <= n
         /\ files \in [DocIds -> {"unused", "missing", "pdf2"}]
         /\ \A d \in DocIds : (files[d] = "unused") <=> d > n
    /\ old = {}
    /\ pages = {[id |-> 0, documentId |-> d, pageNumber |-> 1, extractedText |-> files[d]] :
                   d \in {x \in DocIds : files[x] = "pdf2"}}
    /\ extractions = {}
    /\ chatMessages = <<>>
    /\ runs = [r \in RunIds |-> IdleRun]
    /\ enh = [r \in RunIds |-> NoEnh]
    /\ del = [d \in DocIds |-> {}]
    /\ recovery = [pc |-> "off", queue |-> <<>>]
    /\ http = NoHttp
    /\ retry = NoCall

\* ------------------------------------------------------- processDocument
StartRun(rs, r, d, src) ==
    [rs EXCEPT ![r] = [IdleRun EXCEPT !.doc = d, !.pc = "start", !.src = src]]

\* the record the upload route hands to createDocument
UploadedDocPending == [userId |-> MockUser, status |-> "pending",
                       processingProgress |-> NoProgress, pageCount |-> 0,
                       uploadDate |-> "unset", extractedText |-> "unset"]

UploadedDoc == [userId |-> MockUser, status |-> "processing",
                processingProgress |-> NoProgress, pageCount |-> 0,
                uploadDate |-> "unset", extractedText |-> "unset"]

fileFilterAny(kind) == TRUE

\* multer fileFilter: file.mimetype === "application/pdf"
fileFilter(kind) == kind # "nonpdf"

UploadKinds == FileKinds \cup {"nonpdf"}

\* POST /api/documents/upload: a file multer rejects never reaches the
\* handler (the error goes to the error middleware)
Upload(kind) ==
    /\ server = "up"
    /\ events < MaxEvents
    /\ events' = events + 1
    /\ IF fileFilter(kind)
       THEN /\ FreeDoc # 0 /\ FreeRun # 0
            /\ files' = [files EXCEPT ![FreeDoc] = kind]
            /\ docs' = createDocument(docs, FreeDoc, UploadedDoc)
            /\ runs' = StartRun(runs, FreeRun, FreeDoc, "upload")
            /\ http' = Http("upload", FreeDoc, kind, 200)
       ELSE /\ http' = Http("upload", 0, kind, 500)
            /\ UNCHANGED <<files, docs, runs>>
    /\ UNCHANGED <<retry, server, geminiConfigured, old, pages, extractions,
                   chatMessages, enh, del, recovery>>

\* one progress checkpoint: updateDocument(documentId, {processingProgress})
Checkpoint(r, from, p, to) ==
    /\ server = "up"
    /\ runs[r].pc = from
    /\ docs' = updateDocument(docs, runs[r].doc, [processingProgress |-> p])
    /\ runs' = [runs EXCEPT ![r].pc = to, ![r].last = p]
    /\ UNCHANGED <<retry, server, events, geminiConfigured, files, old, pages,
                   extractions, chatMessages, enh, del, recovery, http>>

RunStart(r) ==
    /\ server = "up"
    /\ runs[r].pc = "start"
    /\ docs' = updateDocument(docs, runs[r].doc,
                 [status |-> "processing", processingProgress |-> 10])
    /\ runs' = [runs EXCEPT ![r].pc = "parse", ![r].last = 10]
    /\ UNCHANGED <<retry, server, events, geminiConfigured, files, old, pages,
                   extractions, chatMessages, enh, del, recovery, http>>

\* fs.readFileSync + pdf(dataBuffer), then the 25 checkpoint
RunParse(r) ==
    /\ server = "up"
    /\ runs[r].pc = "parse"
    /\ IF files[runs[r].doc] \in {"pdf0", "pdf2", "pdfx"}
       THEN /\ docs' = updateDocument(docs, runs[r].doc, [processingProgress |-> 25])
            /\ runs' = [runs EXCEPT ![r].pc = "page", ![r].last = 25,
                                    ![r].np = NumPages(files[runs[r].doc]),
                                    ![r].text = files[runs[r].doc]]
       ELSE /\ runs' = [runs EXCEPT ![r] = FailedRun(runs[r])]
            /\ UNCHANGED docs
    /\ UNCHANGED <<retry, server, events, geminiConfigured, files, old, pages,
                   extractions, chatMessages, enh, del, recovery, http>>

RunPage(r) ==
    /\ server = "up"
    /\ runs[r].pc = "page"
    /\ pages' = createPage(pages, [id |-> r, documentId |-> runs[r].doc, pageNumber |-> 1,
                                 extractedText |-> runs[r].text])
    /\ runs' = [runs EXCEPT ![r].pc = "p40"]
    /\ UNCHANGED <<retry, server, events, geminiConfigured, docs, files, old,
                   extractions, chatMessages, enh, del, recovery, http>>

RunP40Late(r) == Checkpoint(r, "p40", 60, "nlp")

RunP40(r) == Checkpoint(r, "p40", 40, "nlp")

\* Promise.resolve(f(text)).catch(fallback) for each NLP sub-task: f(text)
\* is evaluated before Promise.resolve is called, so a throw of f leaves
\* the try block; extractTablesFromText and getTextStatistics only use
\* string methods and return
RunNlp(r) ==
    /\ server = "up"
    /\ runs[r].pc = "nlp"
    /\ LET entities == NlpResults[runs[r].text].entities
           nlpKeywords == NlpResults[runs[r].text].nlpKeywords
       IN runs' = [runs EXCEPT ![r] =
                     IF entities.threw \/ nlpKeywords.threw
                     THEN FailedRun(runs[r])
                     ELSE [runs[r] EXCEPT !.pc = "p60",
                                          !.analysis = [entities |-> entities.value,
                                                        keywords |-> nlpKeywords.value]]]
    /\ UNCHANGED <<retry, server, events, geminiConfigured, docs, files, old, pages,
                   extractions, chatMessages, enh, del, recovery, http>>

\* the 60 checkpoint
RunP60(r) == Checkpoint(r, "p60", 60, "extract")

RunExtract(r) ==
    /\ server = "up"
    /\ runs[r].pc = "extract"
    /\ extractions' = createExtraction(extractions,
                        [id |-> r, documentId |-> runs[r].doc,
                         extractionType |-> "analysis",
                         data |-> [summary |-> "nlp", by |-> r]])
    /\ runs' = [runs EXCEPT ![r].pc = "p80"]
    /\ UNCHANGED <<retry, server, events, geminiConfigured, docs, files, old, pages,
                   chatMessages, enh, del, recovery, http>>

RunP80(r) == Checkpoint(r, "p80", 80, IF geminiConfigured THEN "sched" ELSE "complete")

\* enhanceAnalysisWithAI(documentId, text) is called, then the 90 checkpoint
RunSched(r) ==
    /\ server = "up"
    /\ runs[r].pc = "sched"
    /\ enh' = [enh EXCEPT ![r] = [pc |-> "llm", doc |-> runs[r].doc, ext |-> 0]]
    /\ \/ /\ docs' = updateDocument(docs, runs[r].doc, [processingProgress |-> 90])
          /\ runs' = [runs EXCEPT ![r].pc = "complete", ![r].last = 90]
       \/ /\ runs' = [runs EXCEPT ![r] = FailedRun(runs[r])]
          /\ UNCHANGED docs
    /\ UNCHANGED <<retry, server, events, geminiConfigured, files, old, pages,
                   extractions, chatMessages, del, recovery, http>>

PageCountRaw(numpages) == numpages

\* const pageCount = pdfData.numpages || 1
PageCount(numpages) == IF numpages = 0 THEN 1 ELSE numpages

RunComplete(r) ==
    /\ server = "up"
    /\ runs[r].pc = "complete"
    /\ docs' = updateDocument(docs, runs[r].doc,
                 [status |-> "completed", pageCount |-> PageCount(runs[r].np),
                  processingProgress |-> 100, extractedText |-> runs[r].text])
    /\ runs' = [runs EXCEPT ![r] = EndedRun]
    /\ UNCHANGED <<retry, server, events, geminiConfigured, files, old, pages,
                   extractions, chatMessages, enh, del, recovery, http>>

\* a storage operation or NLP sub-task of the try block throws
RunThrow(r) ==
    /\ server = "up"
    /\ runs[r].pc \in {"start", "parse", "page", "p40", "p60", "extract", "p80", "complete"}
    /\ runs' = [runs EXCEPT ![r] = FailedRun(runs[r])]
    /\ UNCHANGED <<retry, server, events, geminiConfigured, docs, files, old, pages,
                   extractions, chatMessages, enh, del, recovery, http>>

ErrorUpdateStatusOnly == [status |-> "error"]

\* the updates of the catch handler of processDocument
ErrorUpdate == [status |-> "error", processingProgress |-> ErrorProgress]

RunCatchRollback(r) ==
    /\ server = "up"
    /\ runs[r].pc = "catch"
    /\ docs' = updateDocument(docs, runs[r].doc, ErrorUpdate)
    /\ pages' = {p \in pages : p.documentId # runs[r].doc}
    /\ extractions' = {e \in extractions : e.documentId # runs[r].doc}
    /\ runs' = [runs EXCEPT ![r] = IF runs[r].src = "recovery" THEN EndedRun
                                    ELSE [runs[r] EXCEPT !.pc = "rethrown"]]
    /\ UNCHANGED <<retry, server, events, geminiConfigured, files, old,
                   chatMessages, enh, del, recovery, http>>

\* catch (error) { updateDocument({status: "error", processingProgress: -1}); throw }
RunCatch(r) ==
    /\ server = "up"
    /\ runs[r].pc = "catch"
    /\ docs' = updateDocument(docs, runs[r].doc, ErrorUpdate)
    /\ runs' = [runs EXCEPT ![r] = IF runs[r].src = "recovery" THEN EndedRun
                                    ELSE [runs[r] EXCEPT !.pc = "rethrown"]]
    /\ UNCHANGED <<retry, server, events, geminiConfigured, files, old, pages,
                   extractions, chatMessages, enh, del, recovery, http>>

\* processDocument(...).catch(() => storage.updateDocument(id, {status: "error"}))
RouteCatch(r) ==
    /\ server = "up"
    /\ runs[r].pc = "rethrown"
    /\ docs' = updateDocument(docs, runs[r].doc, [status |-> "error"])
    /\ runs' = [runs EXCEPT ![r] = EndedRun]
    /\ UNCHANGED <<retry, server, events, geminiConfigured, files, old, pages,
                   extractions, chatMessages, enh, del, recovery, http>>

RunStep(r) ==
    \/ RunStart(r) \/ RunParse(r) \/ RunPage(r) \/ RunP40(r) \/ RunNlp(r) \/ RunP60(r)
    \/ RunExtract(r) \/ RunP80(r) \/ RunSched(r) \/ RunComplete(r)
    \/ RunThrow(r) \/ RunCatch(r) \/ RouteCatch(r)

\* -------------------------------------------------- enhanceAnalysisWithAI
EnhanceFailSurfaced(r) ==
    /\ server = "up"
    /\ enh[r].pc \in {"llm", "update"}
    /\ enh' = [enh EXCEPT ![r] = [NoEnh EXCEPT !.pc = "failed"]]
    /\ docs' = updateDocument(docs, enh[r].doc, ErrorUpdate)
    /\ UNCHANGED <<retry, server, events, geminiConfigured, files, old, pages,
                   extractions, chatMessages, runs, del, recovery, http>>

\* generateDocumentSummary, extractKeywords, getExtraction or
\* updateExtraction rejects: catch (error) { console.error(...) }
EnhanceFail(r) ==
    /\ server = "up"
    /\ enh[r].pc \in {"llm", "update"}
    /\ enh' = [enh EXCEPT ![r] = [NoEnh EXCEPT !.pc = "failed"]]
    /\ UNCHANGED <<retry, server, events, geminiConfigured, docs, files, old, pages,
                   extractions, chatMessages, runs, del, recovery, http>>

\* both LLM calls resolved; getExtraction(documentId, "analysis")
EnhanceGet(r) ==
    /\ server = "up"
    /\ enh[r].pc = "llm"
    /\ LET found == getExtraction(extractions, enh[r].doc, "analysis")
       IN IF found = {}
          THEN enh' = [enh EXCEPT ![r] = [NoEnh EXCEPT !.pc = "done"]]
          ELSE \E e \in found : enh' = [enh EXCEPT ![r].pc = "update", ![r].ext = e.id]
    /\ UNCHANGED <<retry, server, events, geminiConfigured, docs, files, old, pages,
                   extractions, chatMessages, runs, del, recovery, http>>

\* updateExtraction(existingExtraction._id, analysis)
EnhanceUpdate(r) ==
    /\ server = "up"
    /\ enh[r].pc = "update"
    /\ extractions' = updateExtraction(extractions, enh[r].ext, [summary |-> "ai", by |-> r])
    /\ enh' = [enh EXCEPT ![r] = [NoEnh EXCEPT !.pc = "done"]]
    /\ UNCHANGED <<retry, server, events, geminiConfigured, docs, files, old, pages,
                   chatMessages, runs, del, recovery, http>>

EnhanceStep(r) == EnhanceFail(r) \/ EnhanceGet(r) \/ EnhanceUpdate(r)

\* ------------------------------------------------------------ the routes
\* GET /api/documents/:id and GET /api/chat/:documentId
Read(route, d) ==
    /\ server = "up"
    /\ events < MaxEvents
    /\ events' = events + 1
    /\ http' = Http(route, d, "none", IF Denied(d) # 0 THEN Denied(d) ELSE 200)
    /\ UNCHANGED <<retry, server, geminiConfigured, docs, files, old, pages,
                   extractions, chatMessages, runs, enh, del, recovery>>

\* POST /api/documents/:id/reprocess
Reprocess(d) ==
    /\ server = "up"
    /\ events < MaxEvents
    /\ events' = events + 1
    /\ IF Denied(d) # 0
       THEN /\ http' = Http("reprocess", d, "none", Denied(d))
            /\ UNCHANGED <<extractions, runs>>
       ELSE IF ~FileExists(d)
       THEN /\ http' = Http("reprocess", d, "none", 404)
            /\ UNCHANGED <<extractions, runs>>
       ELSE /\ FreeRun # 0
            /\ extractions' = {e \in extractions :
                                  \A x \in getExtractions(extractions, d) :
                                     e \in deleteExtraction(extractions, x.id)}
            /\ runs' = StartRun(runs, FreeRun, d, "reprocess")
            /\ http' = Http("reprocess", d, "none", 200)
    /\ UNCHANGED <<retry, server, geminiConfigured, docs, files, old, pages,
                   chatMessages, enh, del, recovery>>

\* DELETE /api/documents/:id: unlink the file, call storage.deleteDocument
Delete(d) ==
    /\ server = "up"
    /\ events < MaxEvents
    /\ events' = events + 1
    /\ del[d] = {}
    /\ IF Denied(d) # 0
       THEN /\ http' = Http("delete", d, "none", Denied(d))
            /\ UNCHANGED <<files, del>>
       ELSE /\ files' = [files EXCEPT ![d] = "missing"]
            /\ del' = [del EXCEPT ![d] = Collections]
            /\ http' = Http("delete", d, "none", 0)
    /\ UNCHANGED <<retry, server, geminiConfigured, docs, old, pages,
                   extractions, chatMessages, runs, enh, recovery>>

RemoveMessages(msgs, d) == SelectSeq(msgs, LAMBDA m : m.documentId # d)

\* one transaction removing the record and everything that refers to it
deleteDocumentAtomic(d, c) ==
    /\ docs' = [docs EXCEPT ![d] = NoDoc]
    /\ pages' = {p \in pages : p.documentId # d}
    /\ extractions' = {e \in extractions : e.documentId # d}
    /\ chatMessages' = RemoveMessages(chatMessages, d)

\* MongoStorage.deleteDocument: the four deletes of Promise.all take effect
\* one by one, in any order
deleteDocument(d, c) ==
    /\ docs' = IF c = "documents" THEN [docs EXCEPT ![d] = NoDoc] ELSE docs
    /\ pages' = IF c = "pages" THEN {p \in pages : p.documentId # d} ELSE pages
    /\ extractions' = IF c = "extractions"
                      THEN {e \in extractions : e.documentId # d} ELSE extractions
    /\ chatMessages' = IF c = "chatMessages"
                       THEN RemoveMessages(chatMessages, d) ELSE chatMessages

\* one of the four deletes; after the last one the route answers
DeleteStep(d, c) ==
    /\ server = "up"
    /\ c \in del[d]
    /\ deleteDocument(d, c)
    /\ del' = [del EXCEPT ![d] = del[d] \ {c}]
    /\ http' = IF del[d] = {c} THEN Http("delete", d, "none", 200) ELSE http
    /\ UNCHANGED <<retry, server, events, geminiConfigured, files, old, runs, enh, recovery>>

\* MongoStorage.getDocumentWithExtractions: doc.extractedText, or the texts
\* of the pages that are not blank
TextPages(d) == {p \in pages : p.documentId = d
                                /\ Len(trim(TextOf(p.extractedText))) > 0}

ExtractedKind(d) ==
    IF Len(TextOf(docs[d].extractedText)) > 0 THEN docs[d].extractedText
    ELSE IF TextPages(d) = {} THEN "none"
    ELSE (CHOOSE p \in TextPages(d) : TRUE).extractedText

ExtractedCopies(d) ==
    IF Len(TextOf(docs[d].extractedText)) > 0 THEN 1 ELSE Cardinality(TextPages(d))

\* gemini.ts isGeminiConfigured: a client was built from GEMINI_API_KEY
isGeminiConfigured == geminiConfigured

\* the LLM returns an answer or generateChatResponse throws
LlmOutcomes == {"returns", "throws"}

\* the inner try/catch of POST /api/chat
aiResponse(d, content, llm) ==
    IF ~isGeminiConfigured THEN Answer("notConfigured", <<>>, <<>>)
    ELSE IF llm = "returns" THEN Answer("llm", <<>>, <<>>)
    ELSE Fallbacks[ExtractedKind(d)][ExtractedCopies(d)][content]

\* POST /api/chat: the user message, then the assistant message
ChatSend(d, content, llm) ==
    /\ server = "up"
    /\ events < MaxEvents
    /\ events' = events + 1
    /\ IF Denied(d) # 0
       THEN /\ http' = Http("chat", d, "none", Denied(d))
            /\ UNCHANGED chatMessages
       ELSE /\ Len(chatMessages) + 2 <= MaxChat
            /\ LET answer == aiResponse(d, content, llm)
               IN chatMessages' = chatMessages \o
                    <<[documentId |-> d, role |-> "user",
                       content |-> Content("question", <<content>>), citations |-> <<>>],
                      [documentId |-> d, role |-> "assistant",
                       content |-> answer.content, citations |-> answer.citations]>>
            /\ http' = Http("chat", d, "none", 200)
    /\ UNCHANGED <<retry, server, geminiConfigured, docs, files, old, pages,
                   extractions, runs, enh, del, recovery>>

\* ------------------------------------------- startup stuck-document recovery
\* registerRoutes runs: the server accepts requests, the recovery task starts
Startup ==
    /\ server = "down"
    /\ server' = "up"
    /\ recovery' = [pc |-> "scan", queue |-> <<>>]
    /\ UNCHANGED <<retry, events, geminiConfigured, docs, files, old, pages,
                   extractions, chatMessages, runs, enh, del, http>>

\* new Date(doc.uploadDate) < tenMinutesAgo: false for a missing uploadDate
IsStuck(doc, isOld) ==
    /\ doc.status = "processing"
    /\ doc.uploadDate = "set" /\ isOld

RECURSIVE SeqOf(_)
SeqOf(S) == IF S = {} THEN <<>>
            ELSE LET x == CHOOSE y \in S : \A z \in S : y <= z
                 IN <<x>> \o SeqOf(S \ {x})

\* getDocuments("mock-user-id-123") and the stuckDocuments filter
RecoveryScan ==
    /\ server = "up"
    /\ recovery.pc = "scan"
    /\ LET stuckDocuments == {d \in DocIds : /\ Exists(d)
                                             /\ docs[d].userId = MockUser
                                             /\ IsStuck(docs[d], d \in old)}
       IN recovery' = [pc |-> IF stuckDocuments = {} THEN "finished" ELSE "loop",
                       queue |-> SeqOf(stuckDocuments)]
    /\ UNCHANGED <<retry, server, events, geminiConfigured, docs, files, old, pages,
                   extractions, chatMessages, runs, enh, del, http>>

\* one iteration of the for loop: reprocess, or mark error when the file is gone
RecoveryNext ==
    /\ server = "up"
    /\ recovery.pc = "loop"
    /\ IF recovery.queue = <<>>
       THEN /\ recovery' = [recovery EXCEPT !.pc = "finished"]
            /\ UNCHANGED <<docs, runs, http>>
       ELSE LET d == Head(recovery.queue)
            IN IF FileExists(d)
               THEN /\ FreeRun # 0
                    /\ runs' = StartRun(runs, FreeRun, d, "recovery")
                    /\ recovery' = [recovery EXCEPT !.pc = "wait"]
                    /\ UNCHANGED docs
               ELSE /\ docs' = updateDocument(docs, d, [status |-> "error"])
                    /\ recovery' = [recovery EXCEPT !.queue = Tail(recovery.queue)]
                    /\ UNCHANGED runs
    /\ UNCHANGED <<retry, server, events, geminiConfigured, files, old, pages,
                   extractions, chatMessages, enh, del, http>>

\* await processDocument(docId, filePath) returned or threw (caught, logged)
RecoveryResume ==
    /\ server = "up"
    /\ recovery.pc = "wait"
    /\ ~\E r \in RunIds : InFlight(r) /\ runs[r].src = "recovery"
    /\ recovery' = [pc |-> "loop", queue |-> Tail(recovery.queue)]
    /\ UNCHANGED <<retry, server, events, geminiConfigured, docs, files, old, pages,
                   extractions, chatMessages, runs, enh, del, http>>

\* ------------------------------------------------------------ environment
\* the threshold (10 minutes) elapses for every stored document; the clock
\* is read only by the filter at startup, so it advances while the process
\* is down
Tick ==
    /\ server = "down"
    /\ old # {d \in DocIds : Exists(d)}
    /\ old' = {d \in DocIds : Exists(d)}
    /\ UNCHANGED <<retry, server, events, geminiConfigured, docs, files, pages,
                   extractions, chatMessages, runs, enh, del, recovery, http>>

\* the process dies: every task in flight is lost, the database stays
Crash ==
    /\ server = "up"
    /\ events <= MaxEvents
    /\ events' = events + 1
    /\ server' = "down"
    /\ runs' = [r \in RunIds |-> IF InFlight(r) THEN EndedRun ELSE runs[r]]
    /\ enh' = [r \in RunIds |-> IF EnhInFlight(r) THEN [NoEnh EXCEPT !.pc = "done"] ELSE enh[r]]
    /\ del' = [d \in DocIds |-> {}]
    /\ recovery' = [pc |-> "off", queue |-> <<>>]
    /\ http' = NoHttp
    /\ UNCHANGED <<retry, geminiConfigured, docs, files, old, pages, extractions, chatMessages>>

\* the document pipeline while the process lives: uploads, runs,
\* enhancements, reprocess, delete and recovery
PipelineSteps ==
    \/ \E kind \in UploadKinds : Upload(kind)
    \/ \E r \in RunIds : RunStep(r)
    \/ \E r \in RunIds : EnhanceStep(r)
    \/ \E d \in DocIds : Reprocess(d)
    \/ \E d \in DocIds : Delete(d)
    \/ \E d \in DocIds : \E c \in Collections : DeleteStep(d, c)
    \/ Startup
    \/ RecoveryScan
    \/ RecoveryNext
    \/ RecoveryResume
    \/ Tick

PipelineNext == PipelineSteps \/ Crash

\* the requests that read documents or chat
Requests ==
    \/ \E d \in DocIds : Read("get", d)
    \/ \E d \in DocIds : Read("history", d)
    \/ \E d \in DocIds, content \in Questions, llm \in LlmOutcomes :
          ChatSend(d, content, llm)

Next == PipelineNext \/ Requests

Spec == Init /\ [][Next]_vars

\* the behaviours in which the process never dies
NoCrashNext == PipelineSteps \/ Requests

NoCrashSpec == Init /\ [][NoCrashNext]_vars

\* ------------------------------------------------------- callWithRetry
\* the retries and delay callWithRetry is called with
Delays == {DefaultDelay, 20 * DefaultDelay}

\* the server is up with nothing stored and callWithRetry is entered
RetryInit ==
    /\ server = "up"
    /\ events = 0
    /\ geminiConfigured = TRUE
    /\ docs = [d \in DocIds |-> NoDoc]
    /\ files = [d \in DocIds |-> "unused"]
    /\ old = {}
    /\ pages = {}
    /\ extractions = {}
    /\ chatMessages = <<>>
    /\ runs = [r \in RunIds |-> IdleRun]
    /\ enh = [r \in RunIds |-> NoEnh]
    /\ del = [d \in DocIds |-> {}]
    /\ recovery = [pc |-> "finished", queue |-> <<>>]
    /\ http = NoHttp
    /\ retry \in {RetryCall(n, delay) : n \in 0..MaxRetries, delay \in Delays}

Pipeline == <<server, events, geminiConfigured, docs, files, old, pages,
              extractions, chatMessages, runs, enh, del, recovery, http>>

\* try { return await fn() }: fn is invoked
RetryInvoke ==
    /\ retry.pc = "enter"
    /\ retry' = [retry EXCEPT !.pc = "fn", !.calls = retry.calls + 1]
    /\ UNCHANGED Pipeline

\* the promise of fn resolves
FnResolves ==
    /\ retry.pc = "fn"
    /\ retry' = [retry EXCEPT !.pc = "returned"]
    /\ UNCHANGED Pipeline

\* the promise of fn rejects with error: the catch block
FnRejects(error) ==
    /\ retry.pc = "fn"
    /\ retry' = IF retry.retries > 0 /\ Is429(error)
                THEN LET waitTime == WaitTime(error, retry.delay)
                     IN IF waitTime > MaxWait
                        THEN [retry EXCEPT !.pc = "thrown", !.error = error]
                        ELSE [retry EXCEPT !.pc = "timer", !.error = error,
                                           !.delay = waitTime]
                ELSE [retry EXCEPT !.pc = "thrown", !.error = error]
    /\ UNCHANGED Pipeline

\* setTimeout fires: return callWithRetry(fn, retries - 1, waitTime)
RetryTimer ==
    /\ retry.pc = "timer"
    /\ retry' = [retry EXCEPT !.pc = "enter", !.retries = retry.retries - 1]
    /\ UNCHANGED Pipeline

RetryNext ==
    \/ RetryInvoke
    \/ FnResolves
    \/ \E error \in Errors : FnRejects(error)
    \/ RetryTimer

\* every promise settles and every timer fires
RetrySpec == RetryInit /\ [][RetryNext]_vars /\ WF_vars(RetryNext)

\* ------------------------------------------------------------ properties
ExistsNext(d) == docs'[d] # NoDoc

StatusChanges(d) ==
    /\ Exists(d) /\ ExistsNext(d)
    /\ docs'[d].status # docs[d].status

\* run r performs its first write, its final write, an error-handler write
FirstWrite(r, d) == runs[r].doc = d /\ runs[r].pc = "start" /\ runs'[r].pc = "parse"

FinalWrite(r, d) ==
    runs[r].doc = d /\ runs[r].pc = "complete" /\ runs'[r] = EndedRun /\ server' = "up"

HandlerWrite(r, d) ==
    /\ runs[r].doc = d /\ server' = "up"
    /\ \/ runs[r].pc = "catch" /\ runs'[r].pc # "catch"
       \/ runs[r].pc = "rethrown" /\ runs'[r] = EndedRun

RecoveryMarksError(d) ==
    /\ recovery.pc = "loop" /\ recovery.queue # <<>> /\ Head(recovery.queue) = d
    /\ recovery'.queue = Tail(recovery.queue)

C2_ThrowEndsInError ==
    [][\A r \in RunIds :
         (runs[r].pc = "catch" /\ runs'[r].pc # "catch" /\ server' = "up"
            /\ ExistsNext(runs[r].doc))
         => /\ docs'[runs[r].doc].status = "error"
            /\ docs'[runs[r].doc].processingProgress = ErrorProgress]_vars

\* a run that threw after its first checkpoint has ended in the handler
C2_Witness ==
    \E r \in RunIds : /\ runs[r].pc = "rethrown"
                       /\ Exists(runs[r].doc)
                       /\ docs[runs[r].doc].status = "error"
                       /\ docs[runs[r].doc].processingProgress = ErrorProgress
                       /\ \E p \in pages : p.documentId = runs[r].doc

\* the scheduling of the event loop: a task in flight takes its next step
\* (a storage operation returns or throws); a stopped process is started
\* again
Fairness ==
    /\ \A r \in RunIds : WF_vars(RunStep(r) \/ EnhanceStep(r))
    /\ WF_vars(\/ \E d \in DocIds : \E c \in Collections : DeleteStep(d, c)
               \/ Startup \/ RecoveryScan \/ RecoveryNext \/ RecoveryResume)

\* liveness is checked over the pipeline: the read and chat routes write no
\* document, page, extraction or run
FairSpec == Init /\ [][PipelineNext]_vars /\ Fairness

Completed(d) ==
    /\ Exists(d)
    /\ docs[d].status = "completed"
    /\ docs[d].pageCount >= 1

UploadRunStarted(d) ==
    \E r \in RunIds : runs[r].pc = "start" /\ runs[r].src = "upload" /\ runs[r].doc = d

RunThrew(d) == \E r \in RunIds : runs[r].pc = "catch" /\ runs[r].doc = d

References(d) ==
    \/ \E p \in pages : p.documentId = d
    \/ \E e \in extractions : e.documentId = d
    \/ \E i \in 1..Len(chatMessages) : chatMessages[i].documentId = d

\* C4: when deleteDocument(id) has completed, the document record is gone
\* and no page, extraction or chat message refers to id.
C4_DeleteRemovesAll ==
    [][\A d \in DocIds :
         (del[d] # {} /\ del'[d] = {} /\ server' = "up")
         => (~ExistsNext(d) /\ ~References(d)')]_vars

\* C5: once startup recovery has finished, no document that was in
\* processing past the threshold at startup is left in processing without
\* a run: each was reprocessed or marked error.
C5_StuckRecovered ==
    recovery.pc = "finished" =>
        \A d \in old : (Exists(d) /\ docs[d].status = "processing")
                          => RunsInFlight(d) # {}

CheckpointOrderFixed ==
    {<<NoProgress, 10>>, <<10, 25>>, <<25, 40>>, <<40, 60>>, <<60, 80>>,
     <<80, 90>>, <<90, 100>>}

CheckpointOrder ==
    {<<NoProgress, 10>>, <<10, 25>>, <<25, 40>>, <<40, 60>>, <<60, 80>>}
      \cup (IF geminiConfigured THEN {<<80, 90>>, <<90, 100>>} ELSE {<<80, 100>>})

\* every progress write of a run that has not failed follows its previous
\* one in the given order and lands in the document record
WritesFollow(order) ==
    \A r \in RunIds :
       /\ (runs'[r].last # runs[r].last /\ runs'[r].last # NoProgress)
            => /\ <<runs[r].last, runs'[r].last>> \in order
               /\ ExistsNext(runs[r].doc) =>
                     docs'[runs[r].doc].processingProgress = runs'[r].last
       /\ (runs[r].pc = "complete" /\ runs'[r] = EndedRun /\ server' = "up")
            => /\ <<runs[r].last, 100>> \in order
               /\ ExistsNext(runs[r].doc) =>
                     docs'[runs[r].doc].processingProgress = 100

\* C6 as stated: a run that does not fail writes progress 10, 25, 40, 60,
\* 80, 90, 100 in this order.
C6_SevenCheckpoints == [][WritesFollow(CheckpointOrderFixed)]_vars

\* C6 amended: ... 10, 25, 40, 60, 80, then 90 only when Gemini is
\* configured, then 100.
C6_CheckpointOrder == [][WritesFollow(CheckpointOrder)]_vars

\* a run is about to write 100 right after 80
C6_Witness ==
    \E r \in RunIds : /\ runs[r].pc = "complete" /\ runs[r].last = 80
                       /\ Exists(runs[r].doc)
                       /\ docs[runs[r].doc].processingProgress = 80

\* C7: a document whose status is error has progress -1.
C7_ErrorHasProgressMinusOne ==
    \A d \in DocIds :
        (Exists(d) /\ docs[d].status = "error")
           => docs[d].processingProgress = ErrorProgress

\* C8: a failing AI enhancement changes no document and no extraction, it
\* never wrote the analysis, and the run still ends in completed / 100.
C8_EnhancementFailureIgnored ==
    /\ [][\A r \in RunIds :
            /\ (enh[r].pc \in {"llm", "update"} /\ enh'[r].pc = "failed")
                 => (docs' = docs /\ extractions' = extractions)
            /\ \A d \in DocIds : (FinalWrite(r, d) /\ ExistsNext(d))
                 => /\ docs'[d].status = "completed"
                    /\ docs'[d].processingProgress = 100]_vars
    /\ [](\A r \in RunIds : enh[r].pc = "failed"
            => ~\E e \in extractions : e.data = [summary |-> "ai", by |-> r])

\* the enhancement failed, the run completed, the NLP analysis is in place
C8_Witness ==
    \E r \in RunIds : \E d \in DocIds :
        /\ enh[r].pc = "failed" /\ runs[r] = EndedRun
        /\ Exists(d) /\ docs[d].status = "completed"
        /\ docs[d].processingProgress = 100
        /\ \E e \in extractions : /\ e.id = r /\ e.documentId = d
                                  /\ e.data = [summary |-> "nlp", by |-> r]

\* C9: the enhancement's write to the analysis extraction happens only
\* after the run that scheduled it has set the document to completed.
C9_EnhancementAfterCompleted ==
    \A e \in extractions :
        e.data.summary = "ai" => ~InFlight(e.data.by)

ExtractionKeys(es) ==
    {[id |-> e.id, documentId |-> e.documentId, extractionType |-> e.extractionType] : e \in es}

EnhancementStep(r) ==
    enh[r].pc \in {"llm", "update"} /\ enh'[r] # enh[r] /\ server' = "up"

\* C10: a step of the AI enhancement creates and deletes no extraction; it
\* changes at most the data of an analysis extraction of its document, and
\* nothing when the document has no analysis extraction.
C10_EnhancementOnlyUpdates ==
    [][\A r \in RunIds : EnhancementStep(r) =>
         /\ ExtractionKeys(extractions') = ExtractionKeys(extractions)
         /\ \A e \in extractions' \ extractions :
               e.documentId = enh[r].doc /\ e.extractionType = "analysis"
         /\ getExtraction(extractions, enh[r].doc, "analysis") = {}
               => extractions' = extractions
         /\ UNCHANGED <<docs, pages, chatMessages>>]_vars

\* an enhancement has replaced the data of an existing extraction
C10_Witness ==
    \E r \in RunIds : /\ enh[r].pc = "done" /\ server = "up"
                       /\ \E e \in extractions : e.data = [summary |-> "ai", by |-> r]

\* C11: the error transition of a run (the throw, the catch handler of
\* processDocument, the catch of its route) deletes or modifies no page and
\* no extraction: what the run had created stays.
C11_ErrorLeavesPartialWork ==
    [][\A r \in RunIds :
         (\/ runs[r].pc \in RunPcs \ {"catch"} /\ runs'[r].pc = "catch"
          \/ HandlerWrite(r, runs[r].doc))
         => (pages' = pages /\ extractions' = extractions)]_vars

\* a run failed after it had created its page and its extraction: the
\* document is in error and both records are in place
C11_Witness ==
    \E r \in RunIds : /\ runs[r].pc = "rethrown"
                       /\ Exists(runs[r].doc)
                       /\ docs[runs[r].doc].status = "error"
                       /\ \E p \in pages : p.id = r /\ p.documentId = runs[r].doc
                       /\ \E e \in extractions : e.id = r /\ e.documentId = runs[r].doc

\* run r takes its NLP step
NlpStep(r) == runs[r].pc = "nlp" /\ runs'[r] # runs[r] /\ server' = "up"

NlpSubTaskThrows(r) ==
    \/ NlpResults[runs[r].text].entities.threw
    \/ NlpResults[runs[r].text].nlpKeywords.threw

\* C12: when an NLP sub-task of a run throws, the run does not go to its
\* error handler: it continues to the next checkpoint with the failed
\* sub-task's result replaced by the empty fallback.
C12_NlpThrowFallsBack ==
    [][\A r \in RunIds :
         (NlpStep(r) /\ NlpSubTaskThrows(r))
         => /\ runs'[r].pc = "p60"
            /\ runs'[r].analysis = NoAnalysis]_vars

\* C19: extractEntities and extractKeywordsFromText applied to the empty
\* text return empty arrays and do not throw: the NLP step of a run over an
\* empty text continues with no entity and no keyword.
C19_EmptyTextNlp ==
    [][\A r \in RunIds :
         (NlpStep(r) /\ runs[r].text = "pdf0" /\ TextOf("pdf0") = <<>>)
         => /\ runs'[r].pc = "p60"
            /\ runs'[r].analysis = [entities |-> <<>>, keywords |-> <<>>]]_vars

\* the NLP step of a run over the empty text has returned
C19_Witness ==
    \E r \in RunIds : /\ runs[r].pc = "p60"
                       /\ runs[r].text = "pdf0" /\ TextOf(runs[r].text) = <<>>
                       /\ runs[r].analysis.entities = <<>>
                       /\ runs[r].analysis.keywords = <<>>

\* a client request is served in this step (every route handler sets http)
RequestStep == events' = events + 1 /\ server' = "up"

DocRoutes == {"get", "history", "reprocess", "delete", "chat"}

\* C13: an upload whose MIME type is not application/pdf is rejected: no
\* document is created, no run is started, and no document, file, page,
\* extraction or chat message changes.
C13_NonPdfRejected ==
    [][(RequestStep /\ http'.route = "upload" /\ http'.file = "nonpdf")
         => /\ http'.status # 200
            /\ UNCHANGED <<docs, files, pages, extractions, chatMessages,
                           runs, enh, del>>]_vars

\* a non-PDF upload was answered with an error while a document is stored
C13_Witness ==
    /\ http = Http("upload", 0, "nonpdf", 500)
    /\ \E d \in DocIds : Exists(d)

\* C16: an uploaded PDF is stored with status pending (and becomes
\* processing when its run starts).
C16_CreatedPending ==
    [][\A d \in DocIds :
         (~Exists(d) /\ ExistsNext(d)) => docs'[d].status = "pending"]_vars

\* C18: a get, chat-history, reprocess, delete or chat-send request on a
\* document that the requesting user does not own is answered 403 and
\* changes no document, file, page, extraction or chat message and starts
\* no run.
C18_NonOwnerDenied ==
    [][\A d \in DocIds :
         (RequestStep /\ http'.route \in DocRoutes /\ http'.doc = d
            /\ Exists(d) /\ docs[d].userId # RequestUser)
         => /\ http'.status = 403
            /\ UNCHANGED <<docs, files, pages, extractions, chatMessages,
                           runs, enh, del>>]_vars

\* a delete request on another user's document was answered 403: the
\* record, the file and the page are in place
C18_Witness ==
    \E d \in DocIds :
        /\ http = Http("delete", d, "none", 403)
        /\ Exists(d) /\ docs[d].userId = OtherUser
        /\ files[d] = "pdf2"
        /\ \E p \in pages : p.documentId = d

\* the sentences of every text a document can have
Sentences ==
    [kind \in TextKinds |-> [copies \in 0..MaxCopies |->
        split(JoinedText(kind, copies), SentenceEnds)]]

\* POST /api/chat with question content is served for document d and the
\* LLM call throws
ChatLlmThrows(d, content) ==
    /\ ChatSend(d, content, "throws")
    /\ Denied(d) = 0
    /\ isGeminiConfigured

StaticAnswers == {"unclear", "nomatch", "apology"}

\* the messages of the step are one user message and one assistant message
\* whose sentences all satisfy Contains
ChatFallbackStored(d, content, Contains(_, _)) ==
    LET n == Len(chatMessages)
        user == chatMessages'[n + 1]
        assistant == chatMessages'[n + 2]
        parts == assistant.content.parts
    IN /\ http'.status = 200
       /\ Len(chatMessages') = n + 2
       /\ SubSeq(chatMessages', 1, n) = chatMessages
       /\ user.documentId = d /\ user.role = "user"
       /\ user.content = Content("question", <<content>>)
       /\ assistant.documentId = d /\ assistant.role = "assistant"
       /\ \/ /\ assistant.content.kind = "found"
             /\ Len(parts) \in 1..3
             /\ \A i \in DOMAIN parts :
                  /\ parts[i] \in Range(Sentences[ExtractedKind(d)][ExtractedCopies(d)])
                  /\ Contains(parts[i], content)
             /\ assistant.citations = [i \in DOMAIN parts |-> trim(parts[i])]
          \/ /\ assistant.content.kind \in StaticAnswers
             /\ parts = <<>>
             /\ assistant.citations = <<>>

ContainsIgnoringCase(s, t) == includes(toLowerCase(s), toLowerCase(t))

\* C14: when the LLM call throws during POST /api/chat the request is
\* answered 200 and stores exactly one user message followed by exactly one
\* assistant message; the assistant content is built from at most 3
\* sentences of the extracted text that contain the question as a substring
\* when letter case is ignored, stored trimmed as citations, or it is a
\* static no-match or apology string without citations.
C14_LlmThrowFallsBack ==
    [][\A d \in DocIds, content \in Questions :
         ChatLlmThrows(d, content)
           => ChatFallbackStored(d, content, ContainsIgnoringCase)]_vars

\* C14 as stated: every sentence used contains the question as a substring
C14_SentencesContainQuestion ==
    [][\A d \in DocIds, content \in Questions :
         ChatLlmThrows(d, content) => ChatFallbackStored(d, content, includes)]_vars

\* the LLM threw and the answer was built from three sentences of the text
C14_Witness ==
    /\ isGeminiConfigured
    /\ http.route = "chat" /\ http.status = 200
    /\ Len(chatMessages) = 2
    /\ chatMessages[1].role = "user"
    /\ chatMessages[2].content.kind = "found"
    /\ Len(chatMessages[2].citations) = 3

\* POST /api/chat is served for document d while no Gemini client exists
ChatNotConfigured(d, content) ==
    /\ \E llm \in LlmOutcomes : ChatSend(d, content, llm)
    /\ Denied(d) = 0
    /\ ~isGeminiConfigured

\* C15: without GEMINI_API_KEY a chat question is answered by the keyword
\* fallback over the document's extracted text, the one used when the LLM
\* call throws.
C15_NotConfiguredFallsBack ==
    [][\A d \in DocIds, content \in Questions :
         ChatNotConfigured(d, content)
           => LET answer == Fallbacks[ExtractedKind(d)][ExtractedCopies(d)][content]
              IN /\ chatMessages'[Len(chatMessages')].content = answer.content
                 /\ chatMessages'[Len(chatMessages')].citations = answer.citations]_vars

Quiescent ==
    /\ \A r \in RunIds : ~InFlight(r) /\ ~EnhInFlight(r)
    /\ \A d \in DocIds : del[d] = {}
    /\ recovery.pc \in {"off", "finished"}

\* C20: while the process never dies, once all in-flight work has finished
\* every page and every extraction refers to a document record that
\* exists, also when a delete request was served during a run or an
\* enhancement of the document.
C20_ReferentialIntegrity ==
    Quiescent =>
        /\ \A p \in pages : Exists(p.documentId)
        /\ \A e \in extractions : Exists(e.documentId)

AnalysisOf(es, d) == getExtraction(es, d, "analysis")

\* the reprocess route has started a run for document d in this step
ReprocessStarted(d) ==
    /\ RequestStep
    /\ http' = Http("reprocess", d, "none", 200)

\* C21: a reprocess request deletes every extraction of the document
\* before the new run starts, and when that run succeeds with no other run
\* of the document in flight, the document has exactly one analysis
\* extraction, the one the new run created.
C21_ReprocessRegenerates ==
    [][/\ \A d \in DocIds :
            ReprocessStarted(d) => getExtractions(extractions', d) = {}
       /\ \A r \in RunIds, d \in DocIds :
            (/\ RunComplete(r)
             /\ runs[r].src = "reprocess" /\ runs[r].doc = d
             /\ RunsInFlight(d) = {r}
             /\ Exists(d) /\ del[d] = {})
            => /\ Cardinality(AnalysisOf(extractions', d)) = 1
               /\ \A e \in AnalysisOf(extractions', d) : e.id = r]_vars

PagesOf(d) == {p \in pages : p.documentId = d}

\* C23: after any sequence of uploads, reprocess requests and recovery
\* runs, each document has at most one extraction of type analysis.
C23_OneAnalysisPerDocument ==
    \A d \in DocIds : Cardinality(AnalysisOf(extractions, d)) <= 1

\* C24: each document has at most one page record; a reprocess or recovery
\* run does not leave the page of an earlier run next to its own.
C24_OnePagePerDocument ==
    \A d \in DocIds : Cardinality(PagesOf(d)) <= 1

\* C25: a document whose status is completed has progress 100, also when a
\* reprocess request started a second run while an earlier one was in
\* flight.
C25_CompletedHasProgress100 ==
    \A d \in DocIds :
        (Exists(d) /\ docs[d].status = "completed")
            => docs[d].processingProgress = 100

\* C26: the enhancement scheduled by run r modifies only the analysis
\* extraction that run r created, never the one a later run created.
C26_EnhancementOwnExtraction ==
    [][\A r \in RunIds :
         EnhanceStep(r) =>
            \A e \in extractions : e.id # r => e \in extractions']_vars

\* run r or the enhancement it scheduled takes a step for document d
WorksOn(r, d) ==
    \/ RunStep(r) /\ runs[r].doc = d
    \/ EnhanceStep(r) /\ enh[r].doc = d

\* C22: a processing run and its enhancement for document d write only the
\* record of d and create or update only pages and extractions whose
\* documentId is d, whatever other runs are in flight.
C22_RunsDoNotInterfere ==
    [][\A r \in RunIds, d \in DocIds :
         WorksOn(r, d) =>
            \A o \in DocIds \ {d} :
                /\ docs'[o] = docs[o]
                /\ {p \in pages' : p.documentId = o} = PagesOf(o)
                /\ getExtractions(extractions', o) = getExtractions(extractions, o)]_vars

\* the enhancement of one document is about to update its extraction
\* while a run of another document has created its page and extraction
C22_Witness ==
    \E r1, r2 \in RunIds :
        /\ enh[r1].pc = "update"
        /\ runs[r2].pc = "p80"
        /\ enh[r1].doc # runs[r2].doc
        /\ \E e \in extractions : e.id = r2 /\ e.documentId = runs[r2].doc
        /\ \E p \in pages : p.id = r2 /\ p.documentId = runs[r2].doc

\* C27: once a document has been deleted no step of a run in flight, of
\* its error handlers or of an enhancement recreates a record with its id:
\* every write of a run or enhancement to a missing document changes no
\* document record.
C27_DeletedStaysDeleted ==
    [][/\ \A d \in DocIds :
            (~Exists(d) /\ files[d] # "unused") => ~ExistsNext(d)
       /\ \A r \in RunIds, d \in DocIds :
            (WorksOn(r, d) /\ ~Exists(d)) => UNCHANGED docs]_vars

\* the cascade delete of a document has completed and the error handler of
\* a run of that document has written to it
C27_Witness ==
    \E d \in DocIds, r \in RunIds :
        /\ ~Exists(d) /\ files[d] = "missing" /\ del[d] = {}
        /\ http = Http("delete", d, "none", 200)
        /\ runs[r].doc = d /\ runs[r].pc = "rethrown"

\* C28: a reprocess request for a document whose file is missing on disk is
\* answered 404 and changes nothing: status and progress stay, no
\* extraction is deleted and no run is started.
C28_ReprocessMissingFile ==
    [][\A d \in DocIds :
         (/\ RequestStep /\ http'.route = "reprocess" /\ http'.doc = d
          /\ Denied(d) = 0 /\ files[d] = "missing")
         => /\ http'.status = 404
            /\ UNCHANGED <<docs, files, pages, extractions, chatMessages,
                           runs, enh, del>>]_vars

\* a reprocess request for a stored document without its file was answered
\* 404 and the record is as it was
C28_Witness ==
    \E d \in DocIds :
        /\ http = Http("reprocess", d, "none", 404)
        /\ Exists(d) /\ docs[d].userId = RequestUser
        /\ files[d] = "missing"
        /\ docs[d].status = "processing"
        /\ RunsInFlight(d) = {}

\* the error is an HTTP 429: by its status or by its message
IdentifiedAs429(error) ==
    \/ error.status = 429
    \/ \E i \in 1..(Len(error.message) - 2) :
          SubSeq(error.message, i, i + 2) = <<"4", "2", "9">>

\* C29: callWithRetry terminates and invokes the wrapped call at most
\* retries + 1 times (4 with the default of 3 retries); it invokes it again
\* only after an error identified as HTTP 429, and any other error is
\* rethrown without another invocation.
C29_RetryBounded ==
    /\ [](retry.calls <= retry.given + 1)
    /\ [](retry.given = 3 => retry.calls <= 4)
    /\ [][(RetryInvoke /\ retry.calls >= 1) => IdentifiedAs429(retry.error)]_vars
    /\ [][\A error \in Errors :
            (FnRejects(error) /\ ~IdentifiedAs429(error))
               => /\ retry'.pc = "thrown"
                  /\ retry'.error = error
                  /\ retry'.calls = retry.calls]_vars
    /\ <>(retry.pc \in {"returned", "thrown"})

\* called with the default of 3 retries, the wrapped call was invoked four
\* times, each time rejecting with a 429, and the last error was rethrown
C29_Witness ==
    /\ retry.given = DefaultRetries
    /\ retry.calls = 4
    /\ retry.pc = "thrown"
    /\ retry.retries = 0
    /\ IdentifiedAs429(retry.error)

====
